---- MODULE Spec2Model ----
(***************************************************************************)
(* Conversation session state machine of the WhatsApp diamond bot:         *)
(* services/whatsapp_client.py with the keyword classifier of              *)
(* services/intent_detector.py, the certificate validation of              *)
(* services/gia_extractor.py and the prompt builders of                    *)
(* services/design_generator.py.                                           *)
(*                                                                         *)
(* Texts are sequences of one-character strings so that lower() and the    *)
(* substring tests of the code are computed, not assumed.  Record ids are  *)
(* positions in the table (1, 2, ...); NoId is the null id.                *)
(***************************************************************************)
EXTENDS Naturals, Sequences, FiniteSets

VARIABLES
    users,        \* table "users": rows carry the session columns
    uploads,      \* table "uploads"
    diamonds,     \* table "diamonds"
    designs,      \* table "designs"
    listings,     \* table "listings"
    oss_api_key,  \* TRUE when OSS_120B_API_KEY is set to a real key
    groq_api_key, \* TRUE when GROQ_API_KEY is set to a real key
    ev            \* the last inbound event: its inputs, the row before, its effects

vars == <<users, uploads, diamonds, designs, listings, oss_api_key, groq_api_key, ev>>

----------------------------------------------------------------------------
(* Bounds *)

MaxUploads == 3
MaxDiamonds == 1
MaxDesigns == 2
MaxListings == 1
MaxFaults == 1
MaxRecords == 4

----------------------------------------------------------------------------
(* Null values *)

NoId == 0
Null == "null"
NoText == <<>>
EmptyContext == <<>>

----------------------------------------------------------------------------
(* Texts *)

TxtContact == <<"c","o","n","t","a","c","t">>
TxtContactCap == <<"C","o","n","t","a","c","t">>
TxtSearch == <<"s","h","o","w"," ","m","e"," ","o","v","a","l"," ","d","i","a","m","o","n","d","s">>
TxtDone == <<"d","o","n","e">>
TxtPrice == <<"5","0","0","0">>
TxtTryAgain == <<"t","r","y"," ","a","g","a","i","n">>
TxtMakeGold == <<"m","a","k","e"," ","i","t"," ","g","o","l","d">>
TxtHello == <<"h","e","l","l","o">>
TxtDesignRing == <<"d","e","s","i","g","n"," ","a"," ","r","i","n","g"," ","w","i","t","h"," ","m","y"," ","d","i","a","m","o","n","d">>
ContactForPrice == <<"C","o","n","t","a","c","t"," ","f","o","r"," ","P","r","i","c","e">>

UpperLetters == <<"A","B","C","D","E","F","G","H","I","J","K","L","M","N","O","P","Q","R","S","T","U","V","W","X","Y","Z">>
LowerLetters == <<"a","b","c","d","e","f","g","h","i","j","k","l","m","n","o","p","q","r","s","t","u","v","w","x","y","z">>

LowerChar(c) ==
    IF \E i \in 1..Len(UpperLetters) : UpperLetters[i] = c
    THEN LowerLetters[CHOOSE i \in 1..Len(UpperLetters) : UpperLetters[i] = c]
    ELSE c

Lower(s) ==
    [i \in 1..Len(s) |-> LowerChar(s[i])]

Contains(s, kw) ==
    \E i \in 0..(Len(s) - Len(kw)) : SubSeq(s, i + 1, i + Len(kw)) = kw

AnyKeyword(s, kws) ==
    \E kw \in kws : Contains(s, kw)

----------------------------------------------------------------------------
(* Intent classifier: services/intent_detector.py *)

VariationKeywords ==
    { <<"t","r","y"," ","a","g","a","i","n">>,
      <<"v","a","r","i","a","t","i","o","n">>,
      <<"a","n","o","t","h","e","r">>,
      <<"d","i","f","f","e","r","e","n","t"," ","s","t","y","l","e">> }

EditKeywords ==
    { <<"c","h","a","n","g","e">>,
      <<"m","a","k","e"," ","i","t">>,
      <<"a","d","d">>,
      <<"r","e","m","o","v","e">>,
      <<"m","o","d","i","f","y">>,
      <<"e","d","i","t">>,
      <<"t","h","i","c","k","e","r">>,
      <<"t","h","i","n","n","e","r">>,
      <<"g","o","l","d">>,
      <<"s","i","l","v","e","r">>,
      <<"p","l","a","t","i","n","u","m">> }

SearchKeywords ==
    { <<"s","h","o","w"," ","m","e">>,
      <<"f","i","n","d">>,
      <<"s","e","a","r","c","h">>,
      <<"l","o","o","k","i","n","g"," ","f","o","r">>,
      <<"w","a","n","t">>,
      <<"n","e","e","d">>,
      <<"c","a","r","a","t">>,
      <<"o","v","a","l">>,
      <<"r","o","u","n","d">>,
      <<"e","m","e","r","a","l","d">>,
      <<"p","r","i","c","e">> }

DesignKeywords ==
    { <<"d","e","s","i","g","n">>,
      <<"c","r","e","a","t","e">>,
      <<"m","a","k","e">>,
      <<"c","u","s","t","o","m">> }

ListingKeywords ==
    { <<"p","r","i","c","e">>,
      <<"s","e","l","l">>,
      <<"l","i","s","t">>,
      <<"c","o","s","t">>,
      <<"c","o","n","t","a","c","t">> }

GreetingKeywords ==
    { <<"h","i">>,
      <<"h","e","l","l","o">>,
      <<"h","e","y">>,
      <<"t","h","a","n","k","s">>,
      <<"t","h","a","n","k"," ","y","o","u">>,
      <<"b","y","e">>,
      <<"g","o","o","d","b","y","e">> }

\* session.get(key) is truthy: the key is one the session dict carries and
\* its value is not null
SessionTruthy(session, key) ==
    /\ key \in DOMAIN session
    /\ session[key] # NoId

IntentResult(intent, confidence) ==
    [intent |-> intent, confidence |-> confidence]

PlaceholderDetection(text, session) ==
    LET text_lower == Lower(text) IN
    IF AnyKeyword(text_lower, VariationKeywords)
    THEN IntentResult("design_variation", 95)
    ELSE IF AnyKeyword(text_lower, EditKeywords) /\ SessionTruthy(session, "last_design_prompt")
    THEN IntentResult("design_edit", 90)
    ELSE IF AnyKeyword(text_lower, SearchKeywords)
    THEN IntentResult("search", 85)
    ELSE IF AnyKeyword(text_lower, DesignKeywords)
    THEN IF SessionTruthy(session, "last_gia")
         THEN IntentResult("design_with_gia", 90)
         ELSE IntentResult("design_free_input", 85)
    ELSE IF AnyKeyword(text_lower, ListingKeywords)
    THEN IntentResult("listing_intent", 80)
    ELSE IF AnyKeyword(text_lower, GreetingKeywords)
    THEN IntentResult("greeting", 95)
    ELSE IntentResult("general_inquiry", 60)

\* what the remote model may answer: the intents of the system prompt, a
\* name outside them, or a JSON object without an intent
ApiIntents ==
    { "search", "design_free_input", "design_with_gia", "design_edit",
      "design_variation", "listing_intent", "general_inquiry", "greeting",
      "unlisted", Null }

\* env.faults: the collaborator calls that fail during this event;
\* env.api_intent: the answer of the remote classifier when it is used
Detect(text, session, env) ==
    IF oss_api_key
    THEN IF "classify" \in env.faults
         THEN IntentResult("general_inquiry", 50)
         ELSE IntentResult(env.api_intent, 95)
    ELSE PlaceholderDetection(text, session)

----------------------------------------------------------------------------
(* The store during one event: the five tables and the ordered effects of  *)
(* the event (messages logged, sends, store writes, generator calls).      *)

Store(u, up, dia, des, lis, tr) ==
    [users |-> u, uploads |-> up, diamonds |-> dia, designs |-> des,
     listings |-> lis, trace |-> tr]

Effect(op, kind, tag, n) ==
    [op |-> op, kind |-> kind, tag |-> tag, n |-> n]

Emit(S, op, kind, tag, n) ==
    [S EXCEPT !.trace = Append(@, Effect(op, kind, tag, n))]

\* send_message: one outbound text
SendMessage(S, tag) ==
    Emit(S, "send", "text", tag, 0)

\* send_message whose body carries a count
SendMessageN(S, tag, n) ==
    Emit(S, "send", "text", tag, n)

SendInteractiveButtons(S, tag) ==
    Emit(S, "send", "buttons", tag, 0)

SendImage(S, tag) ==
    Emit(S, "send", "image", tag, 0)

\* save_message_to_db
SaveMessageToDb(S, direction, message_type) ==
    Emit(S, "log", message_type, direction, 0)

SendGiaMenu(S) ==
    SaveMessageToDb(SendInteractiveButtons(S, "gia_menu"), "outgoing", "interactive")

\* an exception leaves the function that was running: the effect marks the
\* place, and nothing of that function runs after it
Raise(S, tag) ==
    Emit(S, "raise", "exception", tag, 0)

Raised(S) ==
    /\ S.trace # <<>>
    /\ S.trace[Len(S.trace)].op = "raise"

\* send_raw_message: requests.post is not guarded, so a delivery that cannot
\* be made (faults has "deliver") raises to the caller
SendRawMessage(S, tag, faults) ==
    IF "deliver" \in faults
    THEN Raise(Emit(S, "send", "list", tag, 0), "deliver")
    ELSE Emit(S, "send", "list", tag, 0)

SendMainMenu(S, faults) ==
    LET S1 == SendRawMessage(S, "main_menu", faults)
    IN  IF Raised(S1) THEN S1
        ELSE SaveMessageToDb(S1, "outgoing", "interactive")

----------------------------------------------------------------------------
(* Users and the Session Store *)

NewUser(number) ==
    [whatsapp_number |-> number, session_step |-> "idle",
     session_context |-> EmptyContext, last_diamond_id |-> NoId,
     last_design_id |-> NoId]

UserIdsOf(S, number) ==
    { i \in 1..Len(S.users) : S.users[i].whatsapp_number = number }

\* get_or_create_user: uid = NoId is the None result
GetOrCreateUser(S, number, env) ==
    IF "user" \in env.faults
    THEN [S |-> S, uid |-> NoId]
    ELSE IF UserIdsOf(S, number) # {}
    THEN [S |-> S, uid |-> CHOOSE i \in UserIdsOf(S, number) : \A j \in UserIdsOf(S, number) : i <= j]
    ELSE [S |-> [S EXCEPT !.users = Append(@, NewUser(number))], uid |-> Len(S.users) + 1]

Session(step, context, diamond_id, design_id) ==
    [step |-> step, context |-> context, last_diamond_id |-> diamond_id,
     last_design_id |-> design_id]

DefaultSession ==
    Session("idle", EmptyContext, NoId, NoId)

GetUserSessionIgnoringFailure(S, user_id, env) ==
    IF user_id \notin 1..Len(S.users)
    THEN DefaultSession
    ELSE Session(S.users[user_id].session_step, S.users[user_id].session_context,
                 S.users[user_id].last_diamond_id, S.users[user_id].last_design_id)

\* get_user_session
GetUserSession(S, user_id, env) ==
    IF "read" \in env.faults \/ user_id \notin 1..Len(S.users)
    THEN DefaultSession
    ELSE Session(S.users[user_id].session_step, S.users[user_id].session_context,
                 S.users[user_id].last_diamond_id, S.users[user_id].last_design_id)

SessionKeys == { "step", "context", "last_diamond_id", "last_design_id" }

ColumnOf(key) ==
    CASE key = "step" -> "session_step"
      [] key = "context" -> "session_context"
      [] key = "last_diamond_id" -> "last_diamond_id"
      [] key = "last_design_id" -> "last_design_id"

KeyOf(column) ==
    CHOOSE key \in SessionKeys : ColumnOf(key) = column

UpdateUserSessionAlwaysWrites(S, user_id, updates, env) ==
    IF "write" \in env.faults
    THEN S
    ELSE Emit([S EXCEPT !.users = [i \in 1..Len(S.users) |->
                        IF i = user_id THEN [c \in DOMAIN S.users[i] |->
                              IF c \in { ColumnOf(k) : k \in (DOMAIN updates) \cap SessionKeys }
                              THEN updates[KeyOf(c)] ELSE S.users[i][c]]
                        ELSE S.users[i]]],
              "write", "users", "session", user_id)

ApplyUpdateMergingContext(row, db_updates) ==
    [c \in DOMAIN row |->
        IF c \notin DOMAIN db_updates THEN row[c]
        ELSE IF c = "session_context"
        THEN [k \in (DOMAIN row[c]) \cup (DOMAIN db_updates[c]) |->
                 IF k \in DOMAIN db_updates[c] THEN db_updates[c][k] ELSE row[c][k]]
        ELSE db_updates[c]]

DbUpdatesClearingContext(updates) ==
    [c \in { ColumnOf(k) : k \in (DOMAIN updates) \cap SessionKeys } \cup { "session_context" } |->
        IF KeyOf(c) \in DOMAIN updates THEN updates[KeyOf(c)] ELSE EmptyContext]

\* a session update of last_diamond_id that leaves the step where it is
DbUpdatesKeepingStep(updates) ==
    [c \in { ColumnOf(k) : k \in (DOMAIN updates) \cap SessionKeys }
               \ (IF "last_diamond_id" \in DOMAIN updates THEN { "session_step" } ELSE {}) |->
        updates[KeyOf(c)]]

\* the db_updates dict update_user_session builds from the partial update
DbUpdates(updates) ==
    [c \in { ColumnOf(k) : k \in (DOMAIN updates) \cap SessionKeys } |-> updates[KeyOf(c)]]

ApplyUpdate(row, db_updates) ==
    [c \in DOMAIN row |-> IF c \in DOMAIN db_updates THEN db_updates[c] ELSE row[c]]

\* update_user_session: nothing is written for an empty db_updates; a store
\* error is logged and swallowed
UpdateUserSession(S, user_id, updates, env) ==
    IF "write" \in env.faults \/ DOMAIN DbUpdates(updates) = {}
    THEN S
    ELSE Emit([S EXCEPT !.users = [i \in 1..Len(S.users) |->
                        IF i = user_id THEN ApplyUpdate(S.users[i], DbUpdates(updates))
                        ELSE S.users[i]]],
              "write", "users", "session", user_id)

ContextGet(context, key, default) ==
    IF key \in DOMAIN context THEN context[key] ELSE default

\* a context update that loses the new key
ContextSetDropped(context, key, value) ==
    context

ContextSet(context, key, value) ==
    [k \in (DOMAIN context) \cup {key} |-> IF k = key THEN value ELSE context[k]]

----------------------------------------------------------------------------
(* Content generator: services/design_generator.py.  A prompt is the       *)
(* sequence of the pieces the f-string concatenates.                        *)

RefineDesignPrompt(user_description) ==
    IF ~oss_api_key
    THEN <<"Photorealistic jewelry photograph: ">> \o user_description
             \o <<", white background, soft lighting, 8K resolution, elegant composition.">>
    ELSE <<"Refined prompt for: ">> \o user_description

MergeDesignEdits(original_prompt, edit_description) ==
    IF ~oss_api_key
    THEN original_prompt \o <<" | Apply edits: ">> \o edit_description
    ELSE <<"Updated prompt: ">> \o original_prompt \o <<" + ">> \o edit_description

CreateVariationPrompt(original_prompt) ==
    IF ~oss_api_key
    THEN original_prompt \o <<", alternate angle and lighting variation">>
    ELSE <<"Varied prompt based on: ">> \o original_prompt

MergeGiaAndDescription(gia_data, description) ==
    <<"Photorealistic jewelry piece: ">> \o description
        \o <<", featuring a diamond of shape ", gia_data.shape>>

GenResult(success, prompt) ==
    [success |-> success, prompt |-> prompt]

FreeDesign(description) ==
    GenResult(TRUE, RefineDesignPrompt(description))

GiaCustomDesignNeverFails(gia_data, description) ==
    GenResult(TRUE, MergeGiaAndDescription(gia_data, description))

\* shape.lower() raises on a diamond row whose shape is null; the except
\* branch turns it into a failure result
GiaCustomDesign(gia_data, description) ==
    IF gia_data.shape = Null
    THEN GenResult(FALSE, NoText)
    ELSE GenResult(TRUE, MergeGiaAndDescription(gia_data, description))

EditDesign(original_prompt, edit_description) ==
    GenResult(TRUE, MergeDesignEdits(original_prompt, edit_description))

CreateVariation(original_prompt) ==
    GenResult(TRUE, CreateVariationPrompt(original_prompt))

----------------------------------------------------------------------------
(* Design handlers *)

DesignRecord(user_id, diamond_id, type, user_input, previous_prompt, prompt) ==
    [user_id |-> user_id, diamond_id |-> diamond_id, type |-> type,
     user_input |-> user_input, previous_prompt |-> previous_prompt,
     generated_prompt |-> prompt]

InsertDesign(S, record) ==
    [S EXCEPT !.designs = Append(@, record)]

\* the place of a row DELETE /designs/{id} has removed: ids are positions,
\* so the position stays and selects no longer find it
DeletedDesign ==
    DesignRecord(NoId, NoId, "deleted", NoText, NoText, NoText)

DesignFoundIgnored(S, design_id) ==
    design_id \in 1..Len(S.designs)

\* supabase.table("designs").select("*").eq("id", design_id) finds a row
DesignFound(S, design_id) ==
    /\ design_id \in 1..Len(S.designs)
    /\ S.designs[design_id] # DeletedDesign

GenCall(S, kind) ==
    Emit(S, "gen", "design", kind, 0)

\* the two follow-up buttons of a new design, "design_variation" and
\* "design_360_<id>"
SendDesignButtons(S, design_id) ==
    Emit(S, "send", "buttons", "design_options", design_id)

HandleFreeDesign(S, user_id, description, env) ==
    LET S1 == GenCall(SendMessage(S, "creating_design"), "free")
        design_result == FreeDesign(description)
        record == DesignRecord(user_id, NoId, "free_input", description, NoText,
                               design_result.prompt)
        design_id == Len(S1.designs) + 1
    IN  IF ~design_result.success THEN SendMessage(S1, "design_failed")
        ELSE IF "insert_raise" \in env.faults THEN S1
        ELSE IF "insert_empty" \in env.faults THEN SendImage(S1, "design")
        ELSE SendDesignButtons(
                 SendImage(UpdateUserSession(InsertDesign(S1, record), user_id,
                                             [last_design_id |-> design_id], env),
                           "design"),
                 design_id)

HandleGiaCustomDesign(S, user_id, description, env) ==
    LET session == GetUserSession(S, user_id, env)
        diamond_id == session.last_diamond_id
    IN  IF diamond_id = NoId THEN SendMessage(S, "no_diamond_found")
        ELSE IF "select" \in env.faults THEN SendMessage(S, "error_occurred")
        ELSE IF diamond_id \notin 1..Len(S.diamonds) THEN SendMessage(S, "diamond_not_found")
        ELSE
        LET diamond_data == S.diamonds[diamond_id]
            S1 == GenCall(SendMessage(S, "creating_custom_design"), "gia_custom")
            design_result == GiaCustomDesign(diamond_data, description)
            record == DesignRecord(user_id, diamond_id, "gia_custom", description,
                                   NoText, design_result.prompt)
            design_id == Len(S1.designs) + 1
        IN  IF ~design_result.success THEN SendMessage(S1, "design_failed")
            ELSE IF "insert_raise" \in env.faults THEN SendMessage(S1, "error_occurred")
            ELSE IF "insert_empty" \in env.faults
            THEN SendMessage(SendImage(S1, "design"), "error_occurred")
            ELSE SendDesignButtons(
                     SendImage(UpdateUserSession(InsertDesign(S1, record), user_id,
                                                 [last_design_id |-> design_id], env),
                               "design"),
                     design_id)

OriginalPromptWrongField(previous_design) ==
    previous_design.previous_prompt

\* previous_design.get("generated_prompt")
OriginalPrompt(previous_design) ==
    previous_design.generated_prompt

\* handle_design_edit and handle_design_variation differ in the generator
\* they call, the record type and the user input stored
HandleDesignFrom(S, user_id, type, user_input, env) ==
    LET session == GetUserSession(S, user_id, env)
        design_id == session.last_design_id
    IN  IF design_id = NoId THEN SendMessage(S, "no_previous_design")
        ELSE IF "select" \in env.faults THEN SendMessage(S, "error_occurred")
        ELSE IF ~DesignFound(S, design_id) THEN SendMessage(S, "design_not_found")
        ELSE
        LET previous_design == S.designs[design_id]
            original_prompt == OriginalPrompt(previous_design)
            S1 == GenCall(SendMessage(S, IF type = "edit" THEN "applying_changes"
                                         ELSE "generating_variation"), type)
            design_result == IF type = "edit"
                             THEN EditDesign(original_prompt, user_input)
                             ELSE CreateVariation(original_prompt)
            record == DesignRecord(user_id, previous_design.diamond_id, type,
                                   user_input, original_prompt, design_result.prompt)
            new_design_id == Len(S1.designs) + 1
        IN  IF ~design_result.success THEN SendMessage(S1, "design_failed")
            ELSE IF "insert_raise" \in env.faults THEN SendMessage(S1, "error_occurred")
            ELSE IF "insert_empty" \in env.faults THEN SendImage(S1, "design")
            ELSE SendImage(UpdateUserSession(InsertDesign(S1, record), user_id,
                                             [last_design_id |-> new_design_id], env),
                           "design")

HandleDesignEdit(S, user_id, edit_description, env) ==
    HandleDesignFrom(S, user_id, "edit", edit_description, env)

HandleDesignVariation(S, user_id, env) ==
    HandleDesignFrom(S, user_id, "variation", NoText, env)

----------------------------------------------------------------------------
(* Listing flow *)

HandleListForSale(S, user_id, env) ==
    LET session == GetUserSession(S, user_id, env)
    IN  IF session.last_diamond_id = NoId
        THEN SendMessage(S, "no_diamond_found")
        ELSE SendMessage(UpdateUserSession(S, user_id,
                             [step |-> "listing_price", context |-> EmptyContext], env),
                         "ask_price")

\* "Contact for Price" if text.lower() == "contact" else text
PriceOf(text) ==
    IF Lower(text) = TxtContact THEN ContactForPrice ELSE text

ListingRecordSwapped(user_id, diamond_id, price, contact_info, images) ==
    [user_id |-> user_id, diamond_id |-> diamond_id, price |-> contact_info,
     contact_info |-> price, images |-> images, status |-> "pending_review"]

\* listing_data
ListingRecord(user_id, diamond_id, price, contact_info, images) ==
    [user_id |-> user_id, diamond_id |-> diamond_id, price |-> price,
     contact_info |-> contact_info, images |-> images, status |-> "pending_review"]

HandleListingFlow(S, user_id, text, session, env) ==
    LET step == session.step
        context == session.context
        images == ContextGet(context, "images", <<>>)
    IN  IF step = "listing_price"
        THEN SendMessage(UpdateUserSession(S, user_id,
                             [step |-> "listing_contact",
                              context |-> ContextSet(context, "price", PriceOf(text))], env),
                         "ask_contact")
        ELSE IF step = "listing_contact"
        THEN SendMessage(UpdateUserSession(S, user_id,
                             [step |-> "listing_media",
                              context |-> ContextSet(context, "contact_info", text)], env),
                         "ask_media")
        ELSE IF step = "listing_media" /\ Lower(text) = TxtDone
        THEN IF images = <<>>
             THEN SendMessage(S, "need_one_image")
             ELSE IF "insert_raise" \in env.faults
             THEN SendMessage(S, "listing_failed")
             ELSE LET S1 == IF "insert_empty" \in env.faults THEN S
                            ELSE [S EXCEPT !.listings = Append(@,
                                     ListingRecord(user_id, session.last_diamond_id,
                                                   ContextGet(context, "price", NoText),
                                                   ContextGet(context, "contact_info", NoText),
                                                   images))]
                  IN  UpdateUserSession(SendMessage(S1, "listing_created"), user_id,
                                        [step |-> "idle", context |-> EmptyContext], env)
        ELSE S

----------------------------------------------------------------------------
(* Search and the handlers that only answer *)

\* a listings query without the status filter
AllListings(S, env) ==
    IF "select" \in env.faults THEN <<>> ELSE S.listings

\* _query_database: the approved listings, or no row at all when the
\* query raises
ApprovedListings(S, env) ==
    IF "select" \in env.faults THEN <<>>
    ELSE SelectSeq(S.listings, LAMBDA l : l.status = "approved")

SearchResult(success, found, count) ==
    [success |-> success, listings |-> found, count |-> count]

\* SearchHandler.search: the ranking reorders the rows it is given
Search(S, env) ==
    LET found == ApprovedListings(S, env)
    IN  SearchResult(TRUE, found, Len(found))

HandleSearchQuery(S, env) ==
    LET search_result == Search(S, env)
        found == search_result.listings
        S1 == SendMessage(S, "searching")
    IN  IF ~search_result.success THEN SendMessage(S1, "search_failed")
        ELSE IF found = <<>>
        THEN SendMessage(S1, "no_results")
        ELSE SendMessageN(S1, "search_results", Len(found))

HandleGeneralInquiry(S) ==
    SendMessage(S, "general_inquiry_reply")

HandleImproveDiamond(S, user_id, env) ==
    LET session == GetUserSession(S, user_id, env)
        diamond_id == session.last_diamond_id
    IN  IF diamond_id = NoId THEN SendMessage(S, "no_diamond_found")
        ELSE IF "select" \in env.faults THEN SendMessage(S, "error_occurred")
        ELSE IF diamond_id \notin 1..Len(S.diamonds) THEN SendMessage(S, "diamond_not_found")
        ELSE SendMessage(S, "improvements")

Handle360View(S, design_id, env) ==
    IF "select" \in env.faults THEN SendMessage(S, "error_occurred")
    ELSE IF ~DesignFound(S, design_id) THEN SendMessage(S, "design_not_found")
    ELSE Emit(SendMessage(S, "generating_360"), "send", "image", "view_360", design_id)

----------------------------------------------------------------------------
(* handle_text_message *)

HasDiamondUnchecked(session) ==
    TRUE

\* if session.get("last_diamond_id")
HasDiamond(session) ==
    session.last_diamond_id # NoId

HandleTextMessage(S, from_number, text, env) ==
    LET r == GetOrCreateUser(S, from_number, env)
        user_id == r.uid
        session == GetUserSession(r.S, user_id, env)
        S1 == SaveMessageToDb(r.S, "incoming", "text")
        intent == Detect(text, session, env).intent
    IN  IF user_id = NoId THEN SendMessage(S, "error_connecting")
        ELSE IF intent = "search" THEN HandleSearchQuery(S1, env)
        ELSE IF intent = "design_free_input" THEN HandleFreeDesign(S1, user_id, text, env)
        ELSE IF intent = "design_with_gia"
        THEN IF HasDiamond(session)
             THEN HandleGiaCustomDesign(S1, user_id, text, env)
             ELSE SendMessage(S1, "prerequisite_missing")
        ELSE IF intent = "design_edit" THEN HandleDesignEdit(S1, user_id, text, env)
        ELSE IF intent = "design_variation" THEN HandleDesignVariation(S1, user_id, env)
        ELSE IF intent = "listing_intent" THEN HandleListingFlow(S1, user_id, text, session, env)
        ELSE IF intent = "general_inquiry" THEN HandleGeneralInquiry(S1)
        ELSE SendMainMenu(S1, env.faults)

----------------------------------------------------------------------------
(* Certificate extractor: services/gia_extractor.py *)

RawResult(report_number, certificate_number, shape) ==
    [report_number |-> report_number, certificate_number |-> certificate_number,
     shape |-> shape]

\* _placeholder_extraction: the sample report, which has no
\* certificate_number key
PlaceholderExtraction ==
    RawResult("PLACEHOLDER_12345", Null, "Round Brilliant")

\* what the vision model may answer
ApiRawResults ==
    { RawResult("2141438171", Null, "Oval"), RawResult("2141438171", "2141438171", "Oval"),
      RawResult("2141438171", "2141438171", Null), RawResult(Null, Null, "Oval"),
      RawResult(Null, "2141438171", "Oval") }

NoData ==
    RawResult(Null, Null, Null)

ExtractResult(success, has_data, data) ==
    [success |-> success, has_data |-> has_data, data |-> data]

ExtractFromImageUnvalidated(env) ==
    IF groq_api_key /\ "extract" \in env.faults
    THEN ExtractResult(FALSE, FALSE, NoData)
    ELSE ExtractResult(TRUE, TRUE, IF groq_api_key THEN env.raw ELSE PlaceholderExtraction)

\* extract_from_image: success requires a report_number
ExtractFromImage(env) ==
    IF groq_api_key /\ "extract" \in env.faults
    THEN ExtractResult(FALSE, FALSE, NoData)
    ELSE LET result == IF groq_api_key THEN env.raw ELSE PlaceholderExtraction
         IN  IF result.report_number # Null
             THEN ExtractResult(TRUE, TRUE, result)
             ELSE ExtractResult(FALSE, TRUE, result)

\* extract_from_pdf: the conversion of the PDF may raise
ExtractFromPdf(env) ==
    IF "convert" \in env.faults
    THEN ExtractResult(FALSE, FALSE, NoData)
    ELSE ExtractFromImage(env)

----------------------------------------------------------------------------
(* Media handlers *)

\* upload_to_supabase on success: one uploads row; the file URL is
\* identified with the row id
UploadToSupabase(S, user_id, file_type) ==
    [S EXCEPT !.uploads = Append(@, [user_id |-> user_id, file_type |-> file_type])]

DiamondRecord(upload_id, user_id, shape, certificate_number) ==
    [upload_id |-> upload_id, user_id |-> user_id, shape |-> shape,
     certificate_number |-> certificate_number]

InsertDiamond(S, record) ==
    [S EXCEPT !.diamonds = Append(@, record)]

\* data.get("report_number") or data.get("certificate_number")
DocumentCertificateNumber(data) ==
    IF data.report_number # Null THEN data.report_number ELSE data.certificate_number

HandleDocumentMessage(S, from_number, env) ==
    LET r == GetOrCreateUser(S, from_number, env)
        user_id == r.uid
        S1 == SendMessage(r.S, "processing_document")
        S2 == SendMessage(UploadToSupabase(S1, user_id, "document"), "extracting")
        upload_id == Len(S2.uploads)
        gia_data == ExtractFromPdf(env)
        diamond_data == gia_data.data
        diamond_id == Len(S2.diamonds) + 1
    IN  IF user_id = NoId THEN S
        ELSE IF "download" \in env.faults THEN SendMessage(S1, "download_failed")
        ELSE IF "upload" \in env.faults THEN SendMessage(S1, "document_failed")
        ELSE IF ~gia_data.success THEN SendMessage(S2, "extract_failed")
        ELSE IF "insert_raise" \in env.faults \/ "insert_empty" \in env.faults
        THEN SendMessage(S2, "save_failed")
        ELSE SendGiaMenu(UpdateUserSession(
                 InsertDiamond(S2, DiamondRecord(upload_id, user_id, diamond_data.shape,
                                                 DocumentCertificateNumber(diamond_data))),
                 user_id, [last_diamond_id |-> diamond_id, step |-> "gia_menu"], env))

\* gia_data.get("success") and gia_data.get("data", {}).get("certificate_number")
ImageIsCertificate(gia_data) ==
    gia_data.success /\ gia_data.data.certificate_number # Null

PrependImage(images, file_url) ==
    <<file_url>> \o images

\* images.append(file_url)
AppendImage(images, file_url) ==
    Append(images, file_url)

HandleImageMessage(S, from_number, env) ==
    LET r == GetOrCreateUser(S, from_number, env)
        user_id == r.uid
        session == GetUserSession(r.S, user_id, env)
        S1 == SendMessage(r.S, "processing_image")
        S2 == UploadToSupabase(S1, user_id, "image")
        file_url == Len(S2.uploads)
        context == session.context
        images == AppendImage(ContextGet(context, "images", <<>>), file_url)
        S3 == SendMessage(S2, "analyzing")
        gia_data == ExtractFromImage(env)
        diamond_data == gia_data.data
        diamond_id == Len(S3.diamonds) + 1
    IN  IF user_id = NoId THEN S
        ELSE IF "download" \in env.faults THEN SendMessage(S1, "download_failed")
        ELSE IF session.step = "listing_media"
        THEN IF "upload" \in env.faults THEN S1
             ELSE SendMessageN(UpdateUserSession(S2, user_id,
                                   [context |-> ContextSet(context, "images", images)], env),
                               "image_added", Len(images))
        ELSE IF "upload" \in env.faults THEN SendMessage(S1, "image_failed")
        ELSE IF ~ImageIsCertificate(gia_data) THEN SendMessage(S3, "not_a_certificate")
        ELSE IF "insert_raise" \in env.faults \/ "insert_empty" \in env.faults THEN S3
        ELSE SendGiaMenu(UpdateUserSession(
                 InsertDiamond(S3, DiamondRecord(file_url, user_id, diamond_data.shape,
                                                 diamond_data.certificate_number)),
                 user_id, [last_diamond_id |-> diamond_id, step |-> "gia_menu"], env))

----------------------------------------------------------------------------
(* Interactive replies *)

\* auto_design: _choose_jewelry_type calls shape.lower(), which raises on a
\* null shape
AutoDesign(gia_data) ==
    IF gia_data.shape = Null
    THEN GenResult(FALSE, NoText)
    ELSE GenResult(TRUE, <<"Photorealistic luxury jewelry photograph: ", gia_data.shape>>)

HandleAutoDesign(S, user_id, env) ==
    LET session == GetUserSession(S, user_id, env)
        diamond_id == session.last_diamond_id
    IN  IF diamond_id = NoId THEN SendMessage(S, "no_diamond_found")
        ELSE IF "select" \in env.faults THEN SendMessage(S, "error_occurred")
        ELSE IF diamond_id \notin 1..Len(S.diamonds) THEN SendMessage(S, "diamond_not_found")
        ELSE
        LET S1 == GenCall(SendMessage(S, "generating_auto_design"), "auto_design")
            design_result == AutoDesign(S.diamonds[diamond_id])
            record == DesignRecord(user_id, diamond_id, "auto_design", NoText, NoText,
                                   design_result.prompt)
            design_id == Len(S1.designs) + 1
        IN  IF ~design_result.success THEN SendMessage(S1, "design_failed")
            ELSE IF "insert_raise" \in env.faults THEN SendMessage(S1, "error_occurred")
            ELSE IF "insert_empty" \in env.faults
            THEN SendMessage(SendImage(S1, "design"), "error_occurred")
            ELSE SendDesignButtons(
                     SendImage(UpdateUserSession(InsertDesign(S1, record), user_id,
                                                 [last_design_id |-> design_id], env),
                               "design"),
                     design_id)

\* a button is its id; for "design_360_<id>" the id after the prefix is arg
Button(id, arg) ==
    [id |-> id, arg |-> arg]

HandleButtonResponse(S, from_number, button, env) ==
    LET r == GetOrCreateUser(S, from_number, env)
        user_id == r.uid
        button_id == button.id
    IN  IF user_id = NoId THEN S
        ELSE IF button_id = "upload_gia" THEN SendMessage(r.S, "please_upload")
        ELSE IF button_id = "design_jewelry" THEN SendMessage(r.S, "describe_design")
        ELSE IF button_id = "search_diamonds" THEN SendMessage(r.S, "give_criteria")
        ELSE IF button_id = "general_inquiry" THEN SendMessage(r.S, "how_can_i_assist")
        ELSE IF button_id = "list_for_sale" THEN HandleListForSale(r.S, user_id, env)
        ELSE IF button_id = "design_jewelry" THEN HandleAutoDesign(r.S, user_id, env)
        ELSE IF button_id = "improve_diamond" THEN HandleImproveDiamond(r.S, user_id, env)
        ELSE IF button_id = "view_more_results" THEN SendMessage(r.S, "more_results")
        ELSE IF button_id = "design_360_" THEN Handle360View(r.S, button.arg, env)
        ELSE SendMessage(r.S, "unknown_option")

----------------------------------------------------------------------------
(* Inbound events.  handle_webhook awaits each handler before it takes the *)
(* next message, so a message is handled in one step, and the step after   *)
(* it is the return to handle_webhook, which ends the event.  ev is the    *)
(* event being handled: its inputs, the user's row before it and the       *)
(* effects of its handler.                                                 *)

Numbers == { "+15550001" }

\* a user registered earlier who sends nothing: the row every update must
\* leave alone
Bystander ==
    NewUser("+15550002")

TextFaults == { "user", "read", "classify", "select", "insert_raise", "insert_empty", "write" }
ImageFaults == { "user", "read", "download", "upload", "extract", "insert_raise", "insert_empty", "write" }
DocumentFaults == { "user", "download", "upload", "convert", "extract", "insert_raise", "insert_empty", "write" }
ButtonFaults == { "user", "read", "select", "write" }

FaultSets(points) ==
    { f \in SUBSET points : Cardinality(f) <= MaxFaults }

Env(faults, api_intent, raw) ==
    [faults |-> faults, api_intent |-> api_intent, raw |-> raw]

RawChoices ==
    IF groq_api_key THEN ApiRawResults ELSE { NoData }

Button360s ==
    { Button("design_360_", i) : i \in 1..MaxDesigns }

NoButton ==
    Button(Null, NoId)

Current ==
    Store(users, uploads, diamonds, designs, listings, <<>>)

Within(S) ==
    /\ Len(S.uploads) <= MaxUploads
    /\ Len(S.diamonds) <= MaxDiamonds
    /\ Len(S.designs) <= MaxDesigns
    /\ Len(S.listings) <= MaxListings
    /\ Len(S.uploads) + Len(S.diamonds) + Len(S.designs) + Len(S.listings) <= MaxRecords

Commit(S) ==
    /\ users' = S.users
    /\ uploads' = S.uploads
    /\ diamonds' = S.diamonds
    /\ designs' = S.designs
    /\ listings' = S.listings
    /\ UNCHANGED <<oss_api_key, groq_api_key>>

\* the id get_or_create_user finds for the number, NoId when there is no row
UserIdOf(S, number) ==
    IF UserIdsOf(S, number) = {} THEN NoId
    ELSE CHOOSE i \in UserIdsOf(S, number) : \A j \in UserIdsOf(S, number) : i <= j

\* the user row the event is about, before the event
RowBefore(S, number) ==
    IF UserIdOf(S, number) = NoId THEN NewUser(number) ELSE S.users[UserIdOf(S, number)]

Event(kind, number, text, button, env, intent, gia, S, R) ==
    [kind |-> kind, from |-> number, text |-> text, button |-> button,
     faults |-> env.faults, intent |-> intent, gia |-> gia,
     before |-> RowBefore(S, number),
     n_diamonds |-> Len(S.diamonds), n_designs |-> Len(S.designs),
     n_listings |-> Len(S.listings), n_uploads |-> Len(S.uploads),
     trace |-> R.trace, store |-> S, api_intent |-> env.api_intent, raw |-> env.raw]

NoEvent ==
    [kind |-> "none", from |-> Null, text |-> NoText, button |-> NoButton,
     faults |-> {}, intent |-> Null, gia |-> ExtractResult(FALSE, FALSE, NoData),
     before |-> NewUser(Null),
     n_diamonds |-> 0, n_designs |-> 0, n_listings |-> 0, n_uploads |-> 0,
     trace |-> <<>>, store |-> Store(<<>>, <<>>, <<>>, <<>>, <<>>, <<>>),
     api_intent |-> Null, raw |-> NoData]

Init ==
    /\ users = <<Bystander>>
    /\ uploads = <<>>
    /\ diamonds = <<>>
    /\ designs = <<>>
    /\ listings = <<>>
    /\ oss_api_key \in BOOLEAN
    /\ groq_api_key \in BOOLEAN
    /\ ev = NoEvent

\* a text message whose body is one of texts; intents are the answers the
\* remote classifier may give when it is the one in use
TextMessageOf(texts, intents) ==
    /\ ev.kind = "none"
    /\ \E number \in Numbers, text \in texts, faults \in FaultSets(TextFaults),
       api_intent \in (IF oss_api_key THEN intents ELSE { Null }) :
        LET env == Env(faults, api_intent, NoData)
            r == GetOrCreateUser(Current, number, env)
            session == GetUserSession(r.S, r.uid, env)
        IN  \E R \in { HandleTextMessage(Current, number, text, env) } :
            /\ Within(R)
            /\ Commit(R)
            /\ ev' = Event("text", number, text, NoButton, env,
                           Detect(text, session, env).intent,
                           ExtractResult(FALSE, FALSE, NoData), Current, R)

ImageMessage ==
    /\ ev.kind = "none"
    /\ \E number \in Numbers, faults \in FaultSets(ImageFaults), raw \in RawChoices :
        LET env == Env(faults, Null, raw)
        IN  \E R \in { HandleImageMessage(Current, number, env) } :
            /\ Within(R)
            /\ Commit(R)
            /\ ev' = Event("image", number, NoText, NoButton, env, Null,
                           ExtractFromImage(env), Current, R)

DocumentMessage ==
    /\ ev.kind = "none"
    /\ \E number \in Numbers, faults \in FaultSets(DocumentFaults), raw \in RawChoices :
        LET env == Env(faults, Null, raw)
        IN  \E R \in { HandleDocumentMessage(Current, number, env) } :
            /\ Within(R)
            /\ Commit(R)
            /\ ev' = Event("document", number, NoText, NoButton, env, Null,
                           ExtractFromPdf(env), Current, R)

ButtonResponseOf(buttons) ==
    /\ ev.kind = "none"
    /\ \E number \in Numbers, button \in buttons, faults \in FaultSets(ButtonFaults) :
        LET env == Env(faults, Null, NoData)
        IN  \E R \in { HandleButtonResponse(Current, number, button, env) } :
            /\ Within(R)
            /\ Commit(R)
            /\ ev' = Event("button", number, NoText, button, env, Null,
                           ExtractResult(FALSE, FALSE, NoData), Current, R)

\* the handler has returned to handle_webhook: the event is over
WebhookReturn ==
    /\ ev.kind # "none"
    /\ ev' = NoEvent
    /\ UNCHANGED <<users, uploads, diamonds, designs, listings, oss_api_key, groq_api_key>>

----------------------------------------------------------------------------
(* The listing conversation: certificate upload, "list for sale", price,   *)
(* contact, images, "done", with the classifier answering any of the       *)
(* intents a listing text can be given.                                     *)

ListingTexts == { TxtContactCap, TxtSearch, TxtDone, TxtPrice }

ListingIntents == { "search", "listing_intent", "general_inquiry", Null }

ListingButtons == { Button("list_for_sale", NoId), Button("upload_gia", NoId) }

TextMessage ==
    TextMessageOf(ListingTexts, ListingIntents)

ButtonResponse ==
    ButtonResponseOf(ListingButtons)

Next ==
    \/ TextMessage
    \/ ImageMessage
    \/ DocumentMessage
    \/ ButtonResponse
    \/ WebhookReturn

Spec ==
    Init /\ [][Next]_vars

----------------------------------------------------------------------------
(* The design conversation: free-input, gia-combined, edit and variation   *)
(* requests and the replies to the design prompts.                          *)

DesignTexts == { TxtTryAgain, TxtMakeGold }

DesignIntents ==
    { "design_free_input", "design_with_gia", "design_edit", "design_variation", "greeting",
      "listing_intent" }

DesignButtons ==
    { Button(id, NoId) : id \in { "design_jewelry", "design_variation", "improve_diamond",
                                  "view_more_results", "search_diamonds", "general_inquiry",
                                  "list_for_sale" } }
        \cup Button360s

DesignTextMessage ==
    TextMessageOf(DesignTexts, DesignIntents)

DesignButtonResponse ==
    ButtonResponseOf(DesignButtons)

\* DELETE /designs/{design_id} of routes/designs.py, between two events
DeleteDesign ==
    /\ ev.kind = "none"
    /\ \E design_id \in 1..Len(designs) :
        /\ DesignFound(Current, design_id)
        /\ designs' = [designs EXCEPT ![design_id] = DeletedDesign]
    /\ UNCHANGED <<users, uploads, diamonds, listings, oss_api_key, groq_api_key, ev>>

NextDesign ==
    \/ DesignTextMessage
    \/ DeleteDesign
    \/ ImageMessage
    \/ DocumentMessage
    \/ DesignButtonResponse
    \/ WebhookReturn

SpecDesign ==
    Init /\ [][NextDesign]_vars

----------------------------------------------------------------------------
(* The Session Store on its own: update_user_session called with partial   *)
(* updates on stored sessions the conversations produce.                    *)

StoreNumber == "+15550001"

StoredDiamond ==
    DiamondRecord(1, 1, "Oval", "2141438171")

StoredDesign ==
    DesignRecord(1, NoId, "free_input", TxtMakeGold, NoText, RefineDesignPrompt(TxtMakeGold))

\* sessions handlers leave behind: a new user, after a certificate, in the
\* middle of a listing after a design
StoredRows ==
    { NewUser(StoreNumber),
      [NewUser(StoreNumber) EXCEPT !.session_step = "gia_menu", !.last_diamond_id = 1],
      [NewUser(StoreNumber) EXCEPT !.session_step = "listing_media",
           !.session_context = [price |-> TxtPrice, contact_info |-> TxtContactCap],
           !.last_diamond_id = 1, !.last_design_id = 1] }

\* the values a handler may pass for each key
UpdateValues ==
    [step : { "listing_price" },
     context : { EmptyContext, [price |-> ContactForPrice] },
     last_diamond_id : { NoId, 1 },
     last_design_id : { 1 },
     intent : { "search" }]

\* the partial updates: any subset of the session keys, and a key
\* update_user_session does not know
PartialUpdates ==
    { [k \in K |-> v[k]] : K \in SUBSET (SessionKeys \cup { "intent" }), v \in UpdateValues }

StoreEvent(user_id, updates, faults, before, trace) ==
    [kind |-> IF user_id = NoId THEN "none" ELSE "save", user_id |-> user_id, updates |-> updates, faults |-> faults,
     before |-> before, trace |-> trace]

NoStoreEvent ==
    StoreEvent(NoId, <<>>, {}, <<>>, <<>>)

\* no API key is configured: the keys play no part in the Session Store
InitStore ==
    /\ oss_api_key = FALSE
    /\ groq_api_key = FALSE
    /\ \E row \in StoredRows : users = <<row, Bystander>>
    /\ uploads = <<[user_id |-> 1, file_type |-> "document"]>>
    /\ diamonds = <<StoredDiamond>>
    /\ designs = <<StoredDesign>>
    /\ listings = <<>>
    /\ ev = NoStoreEvent

\* update_user_session is awaited: a call is one step, and the step after it
\* is the return to the caller
UpdateUserSessionCall ==
    /\ ev.kind = "none"
    /\ \E user_id \in 1..Len(users), updates \in PartialUpdates, faults \in FaultSets({ "write" }) :
        \E R \in { UpdateUserSession(Current, user_id, updates, Env(faults, Null, NoData)) } :
            /\ Commit(R)
            /\ ev' = StoreEvent(user_id, updates, faults, users, R.trace)

UpdateUserSessionReturn ==
    /\ ev.kind = "save"
    /\ ev' = NoStoreEvent
    /\ UNCHANGED <<users, uploads, diamonds, designs, listings, oss_api_key, groq_api_key>>

LoadEvent(user_id, faults, before, result) ==
    [kind |-> "load", user_id |-> user_id, updates |-> <<>>, faults |-> faults,
     before |-> before, trace |-> <<>>, result |-> result]

\* get_user_session for the id of a stored user or of no user; it only
\* selects, so the tables stay as they are
GetUserSessionCall ==
    /\ ev.kind = "none"
    /\ \E user_id \in 1..(Len(users) + 1), faults \in FaultSets({ "read" }) :
        ev' = LoadEvent(user_id, faults, users,
                        GetUserSession(Current, user_id, Env(faults, Null, NoData)))
    /\ UNCHANGED <<users, uploads, diamonds, designs, listings, oss_api_key, groq_api_key>>

GetUserSessionReturn ==
    /\ ev.kind = "load"
    /\ ev' = NoStoreEvent
    /\ UNCHANGED <<users, uploads, diamonds, designs, listings, oss_api_key, groq_api_key>>

NextStore ==
    \/ UpdateUserSessionCall
    \/ UpdateUserSessionReturn
    \/ GetUserSessionCall
    \/ GetUserSessionReturn

SpecStore ==
    InitStore /\ [][NextStore]_vars

----------------------------------------------------------------------------
(* One webhook delivery: handle_webhook takes the messages of the payload  *)
(* in order and answers when the last one has been handled.  A message     *)
(* carries the collaborator calls that fail while it is handled.           *)

MaxMessages == 2

WhatsAppObject == "whatsapp_business_account"

Message(type, text, button, faults, api_intent) ==
    [type |-> type, text |-> text, button |-> button, faults |-> faults,
     api_intent |-> api_intent]

WebhookTexts == { TxtHello, TxtDone }

WebhookIntents == { "greeting", "general_inquiry", Null }

WebhookButtons == { Button("upload_gia", NoId), Button("not_an_option", NoId) }

\* the messages of a payload: texts, interactive replies and a type
\* handle_webhook has no handler for
Messages ==
    { Message("text", text, NoButton, faults, api_intent) :
        text \in WebhookTexts, faults \in FaultSets({ "user", "classify", "deliver" }),
        api_intent \in (IF oss_api_key THEN WebhookIntents ELSE { Null }) }
    \cup { Message("interactive", NoText, button, faults, Null) :
             button \in WebhookButtons, faults \in FaultSets({ "deliver" }) }
    \cup { Message("sticker", NoText, NoButton, faults, Null) :
             faults \in FaultSets({ "deliver" }) }

Payloads ==
    UNION { [1..n -> Messages] : n \in 0..MaxMessages }

\* the branch of handle_webhook for the type of the message
DispatchMessage(S, from_number, message) ==
    LET env == Env(message.faults, message.api_intent, NoData)
    IN  CASE message.type = "text" -> HandleTextMessage(S, from_number, message.text, env)
          [] message.type = "interactive" ->
                 HandleButtonResponse(S, from_number, message.button, env)
          [] OTHER -> SendMessage(S, "unsupported_type")

\* a dispatch whose exception is left to propagate
Unguarded(R) ==
    R

\* try: <dispatch> except Exception: logger.error(...); send_message(...)
Guarded(R) ==
    IF Raised(R) THEN SendMessage(R, "error_occurred") ELSE R

HandleMessage(S, from_number, message) ==
    Guarded(DispatchMessage(S, from_number, message))

\* what handle_webhook has done with one message
Handled(index, message, S, R) ==
    [index |-> index, message |-> message, store |-> S, trace |-> R.trace]

\* response is Null while the messages are being handled
Delivery(object, payload, next, done, response) ==
    [kind |-> "delivery", object |-> object, payload |-> payload, next |-> next,
     done |-> done, response |-> response]

NoDelivery ==
    [kind |-> "none", object |-> Null, payload |-> <<>>, next |-> 1, done |-> <<>>,
     response |-> Null]

InitWebhook ==
    /\ users = <<Bystander>>
    /\ uploads = <<>>
    /\ diamonds = <<>>
    /\ designs = <<>>
    /\ listings = <<>>
    /\ oss_api_key \in BOOLEAN
    /\ groq_api_key = FALSE
    /\ ev = NoDelivery

\* POST /webhook: a payload of another object is answered 404 at once
WebhookPost ==
    /\ ev.kind = "none"
    /\ \E object \in { WhatsAppObject, "page" }, payload \in Payloads :
        ev' = Delivery(object, payload, 1, <<>>,
                       IF object # WhatsAppObject THEN "404" ELSE Null)
    /\ UNCHANGED <<users, uploads, diamonds, designs, listings, oss_api_key, groq_api_key>>

\* one turn of the loop over the messages; an exception that leaves the
\* loop ends the delivery with a server error
WebhookMessage ==
    /\ ev.kind = "delivery"
    /\ ev.response = Null
    /\ ev.next <= Len(ev.payload)
    /\ \E number \in Numbers :
        \E R \in { HandleMessage(Current, number, ev.payload[ev.next]) } :
            /\ Commit(R)
            /\ ev' = [ev EXCEPT !.next = @ + 1,
                                !.done = Append(@, Handled(ev.next, ev.payload[ev.next],
                                                           Current, R)),
                                !.response = IF Raised(R) THEN "500" ELSE Null]

\* return PlainTextResponse(content="EVENT_RECEIVED", status_code=200)
WebhookRespond ==
    /\ ev.kind = "delivery"
    /\ ev.response = Null
    /\ ev.next > Len(ev.payload)
    /\ ev' = [ev EXCEPT !.response = "EVENT_RECEIVED"]
    /\ UNCHANGED <<users, uploads, diamonds, designs, listings, oss_api_key, groq_api_key>>

WebhookDone ==
    /\ ev.kind = "delivery"
    /\ ev.response # Null
    /\ ev' = NoDelivery
    /\ UNCHANGED <<users, uploads, diamonds, designs, listings, oss_api_key, groq_api_key>>

NextWebhook ==
    \/ WebhookPost
    \/ WebhookMessage
    \/ WebhookRespond
    \/ WebhookDone

SpecWebhook ==
    InitWebhook /\ [][NextWebhook]_vars

----------------------------------------------------------------------------
(* User creation by concurrent requests.  get_or_create_user and POST      *)
(* /users both select the row of the number and insert one when the select *)
(* found none; each call of the store is one step, and requests interleave *)
(* between the two.  The schema of the users table is not part of the      *)
(* sources: unique says whether the table refuses a second row with the    *)
(* same whatsapp_number.                                                    *)

MaxUsers == 3

WebhookRequests == { "webhook_1", "webhook_2" }

ApiRequests == { "api_1" }

RaceNumbers == { "+15550001", "+15550003" }

\* a request that is not running
IdleRequest ==
    [pc |-> "idle", number |-> Null, found |-> FALSE, result |-> NoId]

Requests(unique, procs) ==
    [kind |-> "requests", unique |-> unique, procs |-> procs]

InitUsers ==
    /\ users = <<Bystander>>
    /\ uploads = <<>>
    /\ diamonds = <<>>
    /\ designs = <<>>
    /\ listings = <<>>
    /\ oss_api_key = FALSE
    /\ groq_api_key = FALSE
    /\ \E unique \in BOOLEAN :
        ev = Requests(unique, [p \in WebhookRequests \cup ApiRequests |-> IdleRequest])

\* supabase.table("users").select("*").eq("whatsapp_number", number)
SelectUser(p, number) ==
    /\ ev.procs[p].pc = "idle"
    /\ ev' = [ev EXCEPT !.procs[p] = [pc |-> "selected", number |-> number,
                                      found |-> UserIdsOf(Current, number) # {},
                                      result |-> UserIdOf(Current, number)]]
    /\ UNCHANGED <<users, uploads, diamonds, designs, listings, oss_api_key, groq_api_key>>

\* supabase.table("users").insert(...): the table refuses the row when it
\* keeps the number unique and a row has it
InsertUser(p) ==
    LET number == ev.procs[p].number
    IN  IF ev.unique /\ UserIdsOf(Current, number) # {}
        THEN /\ ev' = [ev EXCEPT !.procs[p].pc = "done", !.procs[p].result = NoId]
             /\ UNCHANGED users
        ELSE /\ Len(users) < MaxUsers
             /\ users' = Append(users, NewUser(number))
             /\ ev' = [ev EXCEPT !.procs[p].pc = "done", !.procs[p].result = Len(users) + 1]

\* the first store call of get_or_create_user
GetOrCreateUserSelect ==
    \E p \in WebhookRequests, number \in RaceNumbers : SelectUser(p, number)

\* its second store call: the update of last_interaction of the row found,
\* or the insert of a new row
GetOrCreateUserInsert ==
    \E p \in WebhookRequests :
        /\ ev.procs[p].pc = "selected"
        /\ IF ev.procs[p].found
           THEN /\ ev' = [ev EXCEPT !.procs[p].pc = "done"]
                /\ UNCHANGED users
           ELSE InsertUser(p)
        /\ UNCHANGED <<uploads, diamonds, designs, listings, oss_api_key, groq_api_key>>

\* create_user of routes/users.py: the check for an existing row
CreateUserSelect ==
    \E p \in ApiRequests, number \in RaceNumbers : SelectUser(p, number)

\* create_user: 400 when the check found a row, the insert otherwise
CreateUserInsert ==
    \E p \in ApiRequests :
        /\ ev.procs[p].pc = "selected"
        /\ IF ev.procs[p].found
           THEN /\ ev' = [ev EXCEPT !.procs[p].pc = "done", !.procs[p].result = NoId]
                /\ UNCHANGED users
           ELSE InsertUser(p)
        /\ UNCHANGED <<uploads, diamonds, designs, listings, oss_api_key, groq_api_key>>

RequestReturn ==
    /\ \E p \in WebhookRequests \cup ApiRequests :
        /\ ev.procs[p].pc = "done"
        /\ ev' = [ev EXCEPT !.procs[p] = IdleRequest]
    /\ UNCHANGED <<users, uploads, diamonds, designs, listings, oss_api_key, groq_api_key>>

NextUsers ==
    \/ GetOrCreateUserSelect
    \/ GetOrCreateUserInsert
    \/ CreateUserSelect
    \/ CreateUserInsert
    \/ RequestReturn

SpecUsers ==
    InitUsers /\ [][NextUsers]_vars

----------------------------------------------------------------------------
(* Two image events of one user in step listing_media, handled by separate *)
(* workers: handle_image_message loads the session, uploads the image and  *)
(* saves the context with the new URL, one store call per step.            *)

ImageRequests == { "image_1", "image_2" }

ListingMediaRow ==
    [NewUser(StoreNumber) EXCEPT !.session_step = "listing_media",
         !.session_context = [price |-> TxtPrice, contact_info |-> TxtContactCap],
         !.last_diamond_id = 1]

IdleImageRequest ==
    [pc |-> "idle", session |-> DefaultSession, file_url |-> NoId]

ImageRequestsOf(procs) ==
    [kind |-> "images", procs |-> procs]

InitImages ==
    /\ users = <<ListingMediaRow, Bystander>>
    /\ uploads = <<[user_id |-> 1, file_type |-> "document"]>>
    /\ diamonds = <<StoredDiamond>>
    /\ designs = <<>>
    /\ listings = <<>>
    /\ oss_api_key = FALSE
    /\ groq_api_key = FALSE
    /\ ev = ImageRequestsOf([p \in ImageRequests |-> IdleImageRequest])

NoFault ==
    Env({}, Null, NoData)

\* session = await get_user_session(user_id)
ImageLoad ==
    /\ \E p \in ImageRequests :
        /\ ev.procs[p].pc = "idle"
        /\ ev' = [ev EXCEPT !.procs[p].pc = "loaded",
                            !.procs[p].session =
                                GetUserSession(Current, UserIdOf(Current, StoreNumber), NoFault)]
    /\ UNCHANGED <<users, uploads, diamonds, designs, listings, oss_api_key, groq_api_key>>

\* upload_to_supabase(image_content, user_id, ..., "image")
ImageUpload ==
    /\ \E p \in ImageRequests :
        /\ ev.procs[p].pc = "loaded"
        /\ Len(uploads) <= MaxUploads
        /\ uploads' = UploadToSupabase(Current, UserIdOf(Current, StoreNumber), "image").uploads
        /\ ev' = [ev EXCEPT !.procs[p].pc = "uploaded", !.procs[p].file_url = Len(uploads) + 1]
    /\ UNCHANGED <<users, diamonds, designs, listings, oss_api_key, groq_api_key>>

ReloadedSession(p) ==
    GetUserSession(Current, UserIdOf(Current, StoreNumber), NoFault)

\* the session the handler works on is the one it loaded at its start
LoadedSession(p) ==
    ev.procs[p].session

\* context["images"] = images; update_user_session(user_id, {"context": context})
ImageSave ==
    /\ \E p \in ImageRequests :
        /\ ev.procs[p].pc = "uploaded"
        /\ LET context == LoadedSession(p).context
               images == AppendImage(ContextGet(context, "images", <<>>), ev.procs[p].file_url)
           IN  users' = UpdateUserSession(Current, UserIdOf(Current, StoreNumber),
                                          [context |-> ContextSet(context, "images", images)],
                                          NoFault).users
        /\ ev' = [ev EXCEPT !.procs[p].pc = "saved"]
    /\ UNCHANGED <<uploads, diamonds, designs, listings, oss_api_key, groq_api_key>>

\* the progress message is sent and the handler returns
ImageReturn ==
    /\ \E p \in ImageRequests :
        /\ ev.procs[p].pc = "saved"
        /\ ev' = [ev EXCEPT !.procs[p] = IdleImageRequest]
    /\ UNCHANGED <<users, uploads, diamonds, designs, listings, oss_api_key, groq_api_key>>

NextImages ==
    \/ ImageLoad
    \/ ImageUpload
    \/ ImageSave
    \/ ImageReturn

SpecImages ==
    InitImages /\ [][NextImages]_vars

----------------------------------------------------------------------------
(* The conversation of a user whose certificate has been stored: the row   *)
(* handle_document_message leaves behind (step gia_menu, last_diamond_id   *)
(* set), then design requests in words and replies to the GIA menu.        *)

GiaMenuRow ==
    [NewUser("+15550001") EXCEPT !.session_step = "gia_menu", !.last_diamond_id = 1]

InitGia ==
    /\ users = <<GiaMenuRow, Bystander>>
    /\ uploads = <<[user_id |-> 1, file_type |-> "document"]>>
    /\ diamonds = <<StoredDiamond>>
    /\ designs = <<>>
    /\ listings = <<>>
    /\ oss_api_key \in BOOLEAN
    /\ groq_api_key = FALSE
    /\ ev = NoEvent

GiaTexts == { TxtDesignRing, TxtHello }

GiaIntents == { "design_free_input", "design_with_gia", "greeting" }

GiaButtons ==
    { Button(id, NoId) : id \in { "design_jewelry", "improve_diamond", "list_for_sale" } }

GiaTextMessage ==
    TextMessageOf(GiaTexts, GiaIntents)

GiaButtonResponse ==
    ButtonResponseOf(GiaButtons)

NextGia ==
    \/ GiaTextMessage
    \/ GiaButtonResponse
    \/ WebhookReturn

SpecGia ==
    InitGia /\ [][NextGia]_vars

----------------------------------------------------------------------------
(* The listing flow of a user who may store a second certificate while the *)
(* flow is open.  ev also remembers, from one event to the next, the       *)
(* last_diamond_id of the session at the last opening of the flow and the  *)
(* number of listings created since.                                       *)

MaxFlowDiamonds == 2

MaxFlowListings == 2

FlowTexts == { TxtPrice, TxtDone }

FlowIntents == { "listing_intent", "general_inquiry" }

FlowFaults == { "read", "write", "insert_raise" }

WithinFlow(S) ==
    /\ Len(S.uploads) <= MaxUploads
    /\ Len(S.diamonds) <= MaxFlowDiamonds
    /\ Len(S.listings) <= MaxFlowListings

FlowEvent(e, opened, created) ==
    [k \in (DOMAIN e) \cup { "opened", "created" } |->
        IF k = "opened" THEN opened ELSE IF k = "created" THEN created ELSE e[k]]

\* the listings created since the flow was last opened, after a handler
\* that turned store S into R
Created(S, R) ==
    ev.created + Len(R.listings) - Len(S.listings)

InitFlow ==
    /\ users = <<GiaMenuRow, Bystander>>
    /\ uploads = <<[user_id |-> 1, file_type |-> "document"]>>
    /\ diamonds = <<StoredDiamond>>
    /\ designs = <<>>
    /\ listings = <<>>
    /\ oss_api_key = TRUE
    /\ groq_api_key = FALSE
    /\ ev = FlowEvent(NoEvent, NoId, 0)

\* handle_list_for_sale has written step listing_price: the flow is open
\* for the last_diamond_id the session has
FlowOpened(R) ==
    \E i \in 1..Len(R.trace) : R.trace[i].op = "write"

FlowListForSale ==
    /\ ev.kind = "none"
    /\ \E faults \in FaultSets(FlowFaults) :
        LET env == Env(faults, Null, NoData)
            button == Button("list_for_sale", NoId)
        IN  \E R \in { HandleButtonResponse(Current, StoreNumber, button, env) } :
            /\ Commit(R)
            /\ ev' = FlowEvent(Event("button", StoreNumber, NoText, button, env, Null,
                                     ExtractResult(FALSE, FALSE, NoData), Current, R),
                               IF FlowOpened(R)
                               THEN RowBefore(Current, StoreNumber).last_diamond_id
                               ELSE ev.opened,
                               IF FlowOpened(R) THEN 0 ELSE ev.created)

FlowTextMessage ==
    /\ ev.kind = "none"
    /\ \E text \in FlowTexts, faults \in FaultSets(FlowFaults), api_intent \in FlowIntents :
        LET env == Env(faults, api_intent, NoData)
        IN  \E R \in { HandleTextMessage(Current, StoreNumber, text, env) } :
            /\ WithinFlow(R)
            /\ Commit(R)
            /\ ev' = FlowEvent(Event("text", StoreNumber, text, NoButton, env, api_intent,
                                     ExtractResult(FALSE, FALSE, NoData), Current, R),
                               ev.opened, Created(Current, R))

FlowImageMessage ==
    /\ ev.kind = "none"
    /\ \E faults \in FaultSets(FlowFaults) :
        LET env == Env(faults, Null, NoData)
        IN  \E R \in { HandleImageMessage(Current, StoreNumber, env) } :
            /\ WithinFlow(R)
            /\ Commit(R)
            /\ ev' = FlowEvent(Event("image", StoreNumber, NoText, NoButton, env, Null,
                                     ExtractFromImage(env), Current, R),
                               ev.opened, Created(Current, R))

FlowDocumentMessage ==
    /\ ev.kind = "none"
    /\ \E faults \in FaultSets(FlowFaults) :
        LET env == Env(faults, Null, NoData)
        IN  \E R \in { HandleDocumentMessage(Current, StoreNumber, env) } :
            /\ WithinFlow(R)
            /\ Commit(R)
            /\ ev' = FlowEvent(Event("document", StoreNumber, NoText, NoButton, env, Null,
                                     ExtractFromPdf(env), Current, R),
                               ev.opened, Created(Current, R))

FlowReturn ==
    /\ ev.kind # "none"
    /\ ev' = FlowEvent(NoEvent, ev.opened, ev.created)
    /\ UNCHANGED <<users, uploads, diamonds, designs, listings, oss_api_key, groq_api_key>>

NextFlow ==
    \/ FlowListForSale
    \/ FlowTextMessage
    \/ FlowImageMessage
    \/ FlowDocumentMessage
    \/ FlowReturn

SpecFlow ==
    InitFlow /\ [][NextFlow]_vars

----------------------------------------------------------------------------
(* Search over a listings table that holds the listings of another seller, *)
(* pending or approved by the administrator, while the user completes a    *)
(* listing of their own and searches.                                       *)

MaxStoredListings == 2

SellerListings ==
    { [ListingRecord(2, 1, TxtPrice, TxtContactCap, <<1>>) EXCEPT !.status = s] :
          s \in { "pending_review", "approved" } }

\* the row of a user who has sent the price, the contact and one image
ReadyToListRow ==
    [NewUser(StoreNumber) EXCEPT !.session_step = "listing_media",
         !.session_context = [price |-> TxtPrice, contact_info |-> TxtContactCap,
                              images |-> <<2>>],
         !.last_diamond_id = 1]

InitSearch ==
    /\ users = <<ReadyToListRow, Bystander>>
    /\ uploads = <<[user_id |-> 1, file_type |-> "document"],
                   [user_id |-> 1, file_type |-> "image"]>>
    /\ diamonds = <<StoredDiamond>>
    /\ designs = <<>>
    /\ listings \in UNION { [1..n -> SellerListings] : n \in 0..MaxStoredListings }
    /\ oss_api_key \in BOOLEAN
    /\ groq_api_key = FALSE
    /\ ev = NoEvent

SearchTexts == { TxtSearch, TxtDone }

SearchIntents == { "search", "listing_intent" }

SearchTextMessage ==
    /\ ev.kind = "none"
    /\ \E text \in SearchTexts, faults \in FaultSets(TextFaults),
          api_intent \in (IF oss_api_key THEN SearchIntents ELSE { Null }) :
        LET env == Env(faults, api_intent, NoData)
            r == GetOrCreateUser(Current, StoreNumber, env)
            session == GetUserSession(r.S, r.uid, env)
        IN  \E R \in { HandleTextMessage(Current, StoreNumber, text, env) } :
            /\ Len(R.listings) <= MaxStoredListings + 1
            /\ Len(R.users) <= 2
            /\ Commit(R)
            /\ ev' = Event("text", StoreNumber, text, NoButton, env,
                           Detect(text, session, env).intent,
                           ExtractResult(FALSE, FALSE, NoData), Current, R)

NextSearch ==
    \/ SearchTextMessage
    \/ WebhookReturn

SpecSearch ==
    InitSearch /\ [][NextSearch]_vars

----------------------------------------------------------------------------
(* What an event has done, read from ev and the store after it *)

\* the row of the user the event is about, after the event
RowNow ==
    RowBefore(Current, ev.from)

Sends(tag) ==
    \E i \in DOMAIN ev.trace : ev.trace[i].op = "send" /\ ev.trace[i].tag = tag

SendCount ==
    Cardinality({ i \in DOMAIN ev.trace : ev.trace[i].op = "send" })

Did(op) ==
    \E i \in DOMAIN ev.trace : ev.trace[i].op = op

ListingSteps == { "listing_price", "listing_contact", "listing_media" }

\* the first message of each handler handle_text_message can start
TopLevelStarted ==
    \/ Sends("searching") \/ Sends("general_inquiry_reply") \/ Sends("main_menu")
    \/ Did("gen") \/ Sends("prerequisite_missing")

Rank(step) ==
    CASE step = "idle" -> 0
      [] step = "gia_menu" -> 1
      [] step = "listing_price" -> 2
      [] step = "listing_contact" -> 3
      [] step = "listing_media" -> 4

\* the extraction of a certificate was run for the event
Extracted ==
    Sends("extracting") \/ Sends("analyzing")

----------------------------------------------------------------------------
(* Listing flow: C1 - C4 *)

\* C1: while the step is listing_price, listing_contact or listing_media a
\* text is handled by the listing handler whatever its intent: no search or
\* other top-level handler starts, and at listing_price the text is stored
\* as the price and the step becomes listing_contact.
C1_ListingStepOverridesIntent ==
    (ev.kind = "text" /\ ev.faults = {} /\ ev.before.session_step \in ListingSteps)
        => /\ ~TopLevelStarted
           /\ ev.before.session_step = "listing_price"
                => /\ RowNow.session_step = "listing_contact"
                   /\ ContextGet(RowNow.session_context, "price", NoText) = ev.text

\* C2: "done" in listing_media creates a ListingRecord if and only if an
\* image was added before it; with no image the step stays listing_media.
C2_ListingIffImageAdded ==
    (ev.kind = "text" /\ ev.faults = {} /\ Lower(ev.text) = TxtDone
         /\ ev.before.session_step = "listing_media")
        => LET added == ContextGet(ev.before.session_context, "images", <<>>) # <<>>
           IN  /\ (Len(listings) = ev.n_listings + 1) <=> added
               /\ ~added => (Len(listings) = ev.n_listings
                                /\ RowNow.session_step = "listing_media")

\* C3: no event moves the step of its user to an earlier step of
\* idle < gia_menu < listing_price < listing_contact < listing_media, except
\* the reset to idle when a listing is completed.
C3_StepMonotonic ==
    (ev.kind \in { "text", "image", "document", "button" } /\ ev.faults = {})
        => \/ Rank(RowNow.session_step) >= Rank(ev.before.session_step)
           \/ (RowNow.session_step = "idle" /\ Len(listings) = ev.n_listings + 1)

\* the price the transition is said to store for a text
ClaimedPrice(text) ==
    IF Lower(text) = TxtContact THEN ContactForPrice ELSE text

\* C4: a text at listing_price moves the step to listing_contact and stores
\* the text as context.price ("contact" in any case as "Contact for Price"),
\* removing no other context key.
C4_PriceStored ==
    (ev.kind = "text" /\ ev.faults = {} /\ ev.before.session_step = "listing_price")
        => /\ RowNow.session_step = "listing_contact"
           /\ ContextGet(RowNow.session_context, "price", NoText) = ClaimedPrice(ev.text)
           /\ \A k \in (DOMAIN ev.before.session_context) \ { "price" } :
                  /\ k \in DOMAIN RowNow.session_context
                  /\ RowNow.session_context[k] = ev.before.session_context[k]

----------------------------------------------------------------------------
(* Designs: C5, C6 *)

\* C5: a text classified design_with_gia from a user whose session has no
\* last_diamond_id has one effect, the prerequisite-missing message: the
\* generator is not called, no DesignRecord is created, nothing is written
\* and the user's row is as before.
C5_PrerequisiteMissing ==
    (ev.kind = "text" /\ ev.intent = "design_with_gia" /\ "user" \notin ev.faults
         /\ ev.before.last_diamond_id = NoId)
        => /\ Sends("prerequisite_missing")
           /\ SendCount = 1
           /\ ~Did("gen")
           /\ ~Did("write")
           /\ Len(designs) = ev.n_designs
           /\ RowNow = ev.before

C5_Witness ==
    /\ ev.kind = "text"
    /\ ev.intent = "design_with_gia"
    /\ "user" \notin ev.faults
    /\ ev.before.last_diamond_id = NoId
    /\ ev.before.last_design_id # NoId
    /\ Sends("prerequisite_missing")

\* C6: a DesignRecord created by the edit or the variation handler has as
\* previous_prompt the generated prompt of the record last_design_id
\* referred to, and once the handler's session write is done last_design_id
\* refers to the new record.
C6_DesignLineage ==
    (ev.kind = "text" /\ ev.intent \in { "design_edit", "design_variation" }
         /\ Len(designs) = ev.n_designs + 1)
        => LET new == designs[Len(designs)]
           IN  /\ ev.before.last_design_id \in 1..ev.n_designs
               /\ new.previous_prompt = designs[ev.before.last_design_id].generated_prompt
               /\ new.type = (IF ev.intent = "design_edit" THEN "edit" ELSE "variation")
               /\ "write" \notin ev.faults => RowNow.last_design_id = Len(designs)

C6_Witness ==
    /\ ev.kind = "text"
    /\ ev.intent \in { "design_edit", "design_variation" }
    /\ Len(designs) = ev.n_designs + 1
    /\ designs[Len(designs)].previous_prompt = designs[ev.before.last_design_id].generated_prompt
    /\ designs[Len(designs)].previous_prompt # NoText
    /\ RowNow.last_design_id = Len(designs)

----------------------------------------------------------------------------
(* Certificates: C7, C8 *)

\* C7: on the document and on the image path, an extraction result without
\* the report number, whatever else it holds, creates no DiamondRecord,
\* leaves step and last_diamond_id as they were and sends a rejection.
C7_NoIdentifierRejected ==
    (ev.kind \in { "document", "image" } /\ Extracted /\ ev.gia.has_data
         /\ ev.gia.data.report_number = Null)
        => /\ Len(diamonds) = ev.n_diamonds
           /\ RowNow.session_step = ev.before.session_step
           /\ RowNow.last_diamond_id = ev.before.last_diamond_id
           /\ IF ev.kind = "document" THEN Sends("extract_failed")
              ELSE Sends("not_a_certificate")

C7_Witness ==
    /\ ev.kind \in { "document", "image" }
    /\ Extracted
    /\ ev.gia.has_data
    /\ ev.gia.data.report_number = Null
    /\ ev.gia.data.shape # Null
    /\ ev.before.last_diamond_id # NoId
    /\ (Sends("extract_failed") \/ Sends("not_a_certificate"))

\* C8: a certificate (a document, or an image outside listing_media) that is
\* downloaded and stored and for which the extractor reports success creates
\* exactly one DiamondRecord of the user, and the session ends with step
\* gia_menu and last_diamond_id the id of the new record.
C8_CertificateCreatesDiamond ==
    (ev.kind \in { "document", "image" } /\ ev.faults = {} /\ Extracted /\ ev.gia.success)
        => /\ Len(diamonds) = ev.n_diamonds + 1
           /\ diamonds[Len(diamonds)].user_id = UserIdOf(Current, ev.from)
           /\ RowNow.session_step = "gia_menu"
           /\ RowNow.last_diamond_id = Len(diamonds)

----------------------------------------------------------------------------
(* Session Store: C9, C10 *)

\* C9: update_user_session with an empty partial update writes nothing and
\* leaves every stored session as it was, however often it is called.
C9_EmptyUpdateNoWrite ==
    (ev.kind = "save" /\ DOMAIN ev.updates = {})
        => /\ ev.trace = <<>>
           /\ users = ev.before

C9_Witness ==
    /\ ev.kind = "save"
    /\ DOMAIN ev.updates = {}
    /\ ev.faults = {}
    /\ users[ev.user_id].session_step # "idle"
    /\ users[ev.user_id].session_context # EmptyContext

\* the stored session of the saved user is the partial merge of U
MergedWith(U, old, new) ==
    /\ \A k \in { "step", "last_diamond_id", "last_design_id" } :
           new[ColumnOf(k)] = IF k \in DOMAIN U THEN U[k] ELSE old[ColumnOf(k)]
    /\ new.session_context = IF "context" \in DOMAIN U THEN U.context
                             ELSE old.session_context
    /\ new.whatsapp_number = old.whatsapp_number

----------------------------------------------------------------------------
(* Session Store load: C11 *)

\* C11: get_user_session returns a session for every user id; when there is
\* no row for the id or the store read fails, the session is the default one
\* (step idle, empty context, no last_diamond_id, no last_design_id), and the
\* call writes nothing to the store.
C11_LoadNeverFails ==
    ev.kind = "load"
        => /\ DOMAIN ev.result = SessionKeys
           /\ (ev.user_id \notin 1..Len(ev.before) \/ "read" \in ev.faults)
                => ev.result = [step |-> "idle", context |-> EmptyContext,
                                last_diamond_id |-> NoId, last_design_id |-> NoId]
           /\ ev.trace = <<>>
           /\ users = ev.before

C11_Witness ==
    /\ ev.kind = "load"
    /\ "read" \in ev.faults
    /\ ev.user_id \in 1..Len(ev.before)
    /\ ev.before[ev.user_id].session_step = "listing_media"
    /\ ev.result.step = "idle"
    /\ ev.result.context = EmptyContext

----------------------------------------------------------------------------
(* Listing flow: C12 - C15 *)

EventKinds == { "text", "image", "document", "button" }

\* C12: the step becomes listing_price only by the "list for sale" selection
\* made at step gia_menu, and the context is then empty; the selection made
\* with no last_diamond_id leaves the session as it was and sends a
\* corrective message.
C12_ListingPriceEntry ==
    (ev.kind \in EventKinds /\ ev.faults = {})
        => /\ (RowNow.session_step = "listing_price"
                  /\ ev.before.session_step # "listing_price")
                => /\ ev.kind = "button"
                   /\ ev.button.id = "list_for_sale"
                   /\ ev.before.session_step = "gia_menu"
                   /\ RowNow.session_context = EmptyContext
           /\ (ev.kind = "button" /\ ev.button.id = "list_for_sale"
                  /\ ev.before.last_diamond_id = NoId)
                => /\ RowNow = ev.before
                   /\ Sends("no_diamond_found")

\* C13: a text at listing_contact moves the step to listing_media and stores
\* the text as context.contact_info, the price stored earlier being kept.
C13_ContactStored ==
    (ev.kind = "text" /\ ev.faults = {} /\ ev.before.session_step = "listing_contact")
        => /\ RowNow.session_step = "listing_media"
           /\ ContextGet(RowNow.session_context, "contact_info", NoText) = ev.text
           /\ "price" \in DOMAIN RowNow.session_context
           /\ ContextGet(RowNow.session_context, "price", NoText)
                  = ContextGet(ev.before.session_context, "price", NoText)

\* the failures that keep an image from being stored in the listing
MediaFaults == { "user", "read", "download", "upload", "write" }

----------------------------------------------------------------------------
(* Designs: C16, C17 *)

C17_EditKeywordRoutedToEdit ==
    (ev.kind = "text" /\ ev.text = TxtMakeGold /\ ev.faults = {} /\ ~oss_api_key
         /\ ev.before.last_design_id # NoId)
        => /\ ev.intent = "design_edit"
           /\ Sends("applying_changes")

----------------------------------------------------------------------------
(* Errors: C18, C19 *)

\* what the handler of the event does from the store before the event when
\* the calls in faults fail
Outcome(faults) ==
    LET env == Env(faults, ev.api_intent, ev.raw)
    IN  CASE ev.kind = "text" -> HandleTextMessage(ev.store, ev.from, ev.text, env)
          [] ev.kind = "image" -> HandleImageMessage(ev.store, ev.from, env)
          [] ev.kind = "document" -> HandleDocumentMessage(ev.store, ev.from, env)
          [] ev.kind = "button" -> HandleButtonResponse(ev.store, ev.from, ev.button, env)

\* the event is the outcome of its handler
OutcomeIsEvent ==
    ev.kind \in EventKinds
        => Outcome(ev.faults) = Store(users, uploads, diamonds, designs, listings, ev.trace)

\* the calls whose failure is an error of the handler: user lookup, session
\* and table reads, inserts, media download and upload, extraction
HandlerFaults ==
    { "user", "read", "select", "insert_raise", "insert_empty",
      "download", "upload", "extract", "convert" }

\* one of the failing calls of the event changed what its handler did, or the
\* generator failed
ErrorHit ==
    /\ ev.kind \in EventKinds
    /\ \/ Sends("design_failed")
       \/ /\ ev.faults \cap HandlerFaults # {}
          /\ Outcome(ev.faults) # Outcome(ev.faults \ HandlerFaults)

\* C18: after an event whose handler hit an error the sender's session step
\* and context are the ones it had before the event
C18_ErrorKeepsSession ==
    ErrorHit
        => /\ RowNow.session_step = ev.before.session_step
           /\ RowNow.session_context = ev.before.session_context

\* the messages that tell the user that the event failed
FailureTags ==
    { "download_failed", "document_failed", "image_failed", "extract_failed",
      "save_failed", "design_failed", "listing_failed", "error_occurred",
      "error_connecting" }

\* an insert that raises or an upload that fails changed what the handler did
StoreErrorHit ==
    /\ ev.kind \in EventKinds
    /\ ev.faults \cap { "insert_raise", "upload" } # {}
    /\ Outcome(ev.faults) # Outcome(ev.faults \ { "insert_raise", "upload" })

\* C19: an event whose handler failed to save a diamond, a design, a listing
\* or an uploaded image sends the user at least one failure message
C19_FailureMessageSent ==
    StoreErrorHit => \E tag \in FailureTags : Sends(tag)

----------------------------------------------------------------------------
(* Message log: C20 *)

\* C20: the first effect of every event of a resolved user is the log of the
\* incoming message, before any message is sent
C20_IncomingLoggedFirst ==
    (ev.kind \in EventKinds /\ "user" \notin ev.faults)
        => /\ ev.trace # <<>>
           /\ ev.trace[1].op = "log"
           /\ ev.trace[1].tag = "incoming"

\* C21: every send of an event is directly followed by the log of an outgoing
\* message
C21_SendFollowedByLog ==
    ev.kind \in EventKinds
        => \A i \in 1..Len(ev.trace) :
               ev.trace[i].op = "send"
                   => /\ i < Len(ev.trace)
                      /\ ev.trace[i + 1].op = "log"
                      /\ ev.trace[i + 1].tag = "outgoing"

----------------------------------------------------------------------------
(* Outbound channel: C22 *)

\* C22: while a message is handled no send raises to the handler that
\* called it
C22_SendNeverRaises ==
    ev.kind = "delivery"
        => \A i \in 1..Len(ev.done) : \A j \in 1..Len(ev.done[i].trace) :
               ev.done[i].trace[j].op # "raise"

----------------------------------------------------------------------------
(* Classifier: C23, C24 *)

\* the result detect gave for the text of the event
Detected ==
    Detect(ev.text, GetUserSession(ev.store, UserIdOf(ev.store, ev.from), Env({}, Null, NoData)),
           Env(ev.faults, ev.api_intent, ev.raw))

\* C23: detect gives every text an intent, and general_inquiry at confidence
\* 0.5 when the classification raised
C23_DetectAlwaysClassifies ==
    (ev.kind = "text" /\ "user" \notin ev.faults)
        => /\ Detected.intent # Null
           /\ (oss_api_key /\ "classify" \in ev.faults)
                  => Detected = IntentResult("general_inquiry", 50)

\* the intent names handle_text_message has a branch for
RoutedIntents ==
    { "search", "design_free_input", "design_with_gia", "design_edit",
      "design_variation", "listing_intent", "general_inquiry" }

\* C24: a text whose intent has no handler, or that got the degraded result
\* general_inquiry at confidence 0.5, is answered by the main menu alone
C24_FallbackToMainMenu ==
    (/\ ev.kind = "text"
     /\ "user" \notin ev.faults
     /\ \/ Detected.intent \notin RoutedIntents
        \/ Detected = IntentResult("general_inquiry", 50))
        => ev.trace = <<Effect("log", "text", "incoming", 0),
                        Effect("send", "list", "main_menu", 0),
                        Effect("log", "interactive", "outgoing", 0)>>

----------------------------------------------------------------------------
(* Design prerequisites and follow-ups: C25 - C27 *)

\* the text asks for an edit or a variation and the session the handler
\* reads has no last design, or the design it names has been deleted
NoDesignToContinue ==
    /\ ev.kind = "text"
    /\ ev.faults \cap { "user", "read", "select" } = {}
    /\ ev.intent \in { "design_edit", "design_variation" }
    /\ \/ ev.before.last_design_id = NoId
       \/ ev.store.designs[ev.before.last_design_id] = DeletedDesign

\* C25: an edit or a variation without a design to continue from is answered
\* by one corrective message: no generator call, no new design, the session
\* as it was
C25_NoDesignNoEffect ==
    NoDesignToContinue
        => /\ ev.trace = <<Effect("log", "text", "incoming", 0),
                           Effect("send", "text",
                                  IF ev.before.last_design_id = NoId
                                  THEN "no_previous_design" ELSE "design_not_found", 0)>>
           /\ designs = ev.store.designs
           /\ RowNow = ev.before

C25_Witness ==
    /\ NoDesignToContinue
    /\ ev.before.last_design_id # NoId
    /\ Sends("design_not_found")

\* C26: in every event that sends a generated design, the design is directly
\* followed by the prompt with the two follow-up choices
C26_DesignFollowedByChoices ==
    ev.kind \in EventKinds
        => \A i \in 1..Len(ev.trace) :
               (ev.trace[i].op = "send" /\ ev.trace[i].kind = "image" /\ ev.trace[i].tag = "design"
                /\ ev.faults = {})
                   => /\ i < Len(ev.trace)
                      /\ ev.trace[i + 1].op = "send"
                      /\ ev.trace[i + 1].kind = "buttons"
                      /\ ev.trace[i + 1].tag = "design_options"

\* a gia-combined design is asked for a diamond whose shape is null: the
\* generator raises inside and reports failure
GeneratorFails ==
    /\ ev.kind = "text"
    /\ ev.faults \cap { "user", "read", "select" } = {}
    /\ ev.intent = "design_with_gia"
    /\ ev.before.last_diamond_id \in 1..Len(ev.store.diamonds)
    /\ ev.store.diamonds[ev.before.last_diamond_id].shape = Null

\* C27: when the generator reports failure it was called once in the event,
\* the user is told, no design is stored and last_design_id stays
C27_GeneratorFailureSurfaced ==
    GeneratorFails
        => /\ Cardinality({ i \in 1..Len(ev.trace) : ev.trace[i].op = "gen" }) = 1
           /\ Sends("design_failed")
           /\ designs = ev.store.designs
           /\ RowNow.last_design_id = ev.before.last_design_id

C27_Witness ==
    /\ GeneratorFails
    /\ Sends("design_failed")
    /\ Did("gen")

----------------------------------------------------------------------------
(* Users: C28 *)

\* C28: no two rows of the users table have the same whatsapp_number
C28_NumberUnique ==
    \A i, j \in 1..Len(users) :
        users[i].whatsapp_number = users[j].whatsapp_number => i = j

----------------------------------------------------------------------------
(* Concurrent images: C29 *)

StoredImages ==
    ContextGet(users[1].session_context, "images", <<>>)

ImageUploads ==
    { i \in 1..Len(uploads) : uploads[i].file_type = "image" }

\* C29: a save writes the images the request loaded followed by its own URL,
\* whatever another request has saved since the load, so the list can be
\* shorter than the number of images stored
C29_LastWriterWins ==
    [][\A p \in ImageRequests :
          (ev.procs[p].pc = "uploaded" /\ ev'.procs[p].pc = "saved")
              => users'[1].session_context.images
                     = Append(ContextGet(ev.procs[p].session.context, "images", <<>>),
                              ev.procs[p].file_url)]_vars

\* both requests have returned and an image that was stored is not listed
C29_Witness ==
    /\ ev.kind = "images"
    /\ \A p \in ImageRequests : ev.procs[p].pc = "idle"
    /\ Len(StoredImages) < Cardinality(ImageUploads)

----------------------------------------------------------------------------
(* Webhook delivery: C30 *)

\* C30: the messages of a delivery are handled once each in payload order,
\* an exception in one handler does not end the loop, and the delivery is
\* answered EVENT_RECEIVED after the last message and not before
C30_EveryMessageDispatched ==
    (ev.kind = "delivery" /\ ev.object = WhatsAppObject)
        => /\ Len(ev.done) = ev.next - 1
           /\ \A i \in 1..Len(ev.done) :
                  /\ ev.done[i].index = i
                  /\ ev.done[i].message = ev.payload[i]
                  /\ ev.done[i].trace # <<>>
           /\ ev.response # Null
                  => /\ ev.response = "EVENT_RECEIVED"
                     /\ Len(ev.done) = Len(ev.payload)

\* a delivery of two messages is answered although the handler of the first
\* raised
C30_Witness ==
    /\ ev.kind = "delivery"
    /\ ev.response = "EVENT_RECEIVED"
    /\ Len(ev.done) = 2
    /\ \E j \in 1..Len(ev.done[1].trace) : ev.done[1].trace[j].op = "raise"
    /\ ev.done[2].message.type = "text"

----------------------------------------------------------------------------
(* Routing of a design request of a user with a diamond: C31 *)

\* C31: with last_diamond_id set, the text "design a ring with my diamond"
\* is classified design_with_gia and handled by the gia-combined design
\* handler, not by the free-input one
C31_DesignWithDiamondRouted ==
    (ev.kind = "text" /\ ev.text = TxtDesignRing /\ ev.faults = {} /\ ~oss_api_key
         /\ ev.before.last_diamond_id # NoId)
        => /\ ev.intent = "design_with_gia"
           /\ Did("gen") => \E i \in 1..Len(ev.trace) :
                                /\ ev.trace[i].op = "gen"
                                /\ ev.trace[i].tag = "gia_custom"

----------------------------------------------------------------------------
(* What the listing steps have collected: C32 *)

\* C32: a row in listing_contact has a price in its context, a row in
\* listing_media has a price and a contact, and every listing created has
\* a price and a contact that are not null
C32_ListingStepsHaveData ==
    /\ \A i \in 1..Len(users) :
        /\ users[i].session_step = "listing_contact"
               => "price" \in DOMAIN users[i].session_context
        /\ users[i].session_step = "listing_media"
               => {"price", "contact_info"} \subseteq DOMAIN users[i].session_context
    /\ \A i \in 1..Len(listings) :
        /\ listings[i].price # NoText
        /\ listings[i].contact_info # NoText

\* "done" has just created a listing out of a context that went through
\* the three steps
C32_Witness ==
    /\ ev.kind = "text"
    /\ ev.before.session_step = "listing_media"
    /\ Len(listings) = ev.n_listings + 1
    /\ listings[Len(listings)].price = ev.before.session_context["price"]
    /\ listings[Len(listings)].contact_info = ev.before.session_context["contact_info"]

----------------------------------------------------------------------------
(* The diamond a listing is made for: C33 *)

\* C33: a listing created by "done" is for the diamond the session pointed
\* at when "list for sale" last opened the flow, also when another
\* certificate was stored in between
C33_ListingForOpenedDiamond ==
    (ev.kind = "text" /\ Len(listings) = ev.n_listings + 1)
        => /\ ev.opened # NoId
           /\ listings[Len(listings)].diamond_id = ev.opened

\* a second certificate was stored after the flow was first opened, and a
\* listing has been created
C33_Witness ==
    /\ ev.kind = "text"
    /\ Len(listings) = ev.n_listings + 1
    /\ Len(diamonds) = 2
    /\ listings[Len(listings)].diamond_id = 1

----------------------------------------------------------------------------
(* Listings per opening of the flow: C34 *)

\* C34: between one opening of the listing flow and the next at most one
\* listing is created, also when "done" comes twice and when the write
\* that resets the step after the insert fails
C34_OneListingPerOpening ==
    ev.created <= 1

----------------------------------------------------------------------------
(* Replies to the prompts the bot sends: C35, C36 *)

\* the ids of the choices in send_gia_menu, send_main_menu, the design
\* follow-up buttons and the search results
OfferedIds ==
    { "list_for_sale", "design_jewelry", "improve_diamond", "upload_gia",
      "search_diamonds", "general_inquiry", "design_variation", "design_360_",
      "view_more_results" }

\* C35: a choice the bot offers is never answered "Unknown option
\* selected"; "Try Variation" after a design runs the variation handler
C35_OfferedChoiceHandled ==
    (ev.kind = "button" /\ "user" \notin ev.faults /\ ev.button.id \in OfferedIds
         /\ (ev.button.id = "design_variation" => ev.before.last_design_id # NoId))
        => /\ ~Sends("unknown_option")
           /\ ev.button.id = "design_variation" => Did("gen")

\* C36: "Design Jewelry" selected from the GIA menu, with last_diamond_id
\* set, runs the auto-design handler: a design is generated from the
\* stored diamond and recorded with that diamond's id
C36_DesignJewelryAutoDesign ==
    (ev.kind = "button" /\ ev.button.id = "design_jewelry" /\ ev.faults = {}
         /\ ev.before.session_step = "gia_menu" /\ ev.before.last_diamond_id # NoId)
        => /\ Sends("generating_auto_design")
           /\ Len(designs) = ev.n_designs + 1
           /\ designs[Len(designs)].diamond_id = ev.before.last_diamond_id

----------------------------------------------------------------------------
(* No event is handled silently: C37 *)

\* C37: the handler of an event of a user that could be resolved attempts
\* at least one send, whatever the kind of message, the intent and the step
C37_EveryEventAnswered ==
    (ev.kind \in { "text", "image", "document", "button" } /\ "user" \notin ev.faults)
        => SendCount >= 1

----------------------------------------------------------------------------
(* Search: C38, C39 *)

\* C38: with an approved listing in the store, when the listings query
\* fails the search does not report success and the user is told the search
\* failed, not that nothing was found; a successful search counts the
\* listings it returns
C38_QueryFailureSurfaced ==
    (ev.kind = "text" /\ ev.intent = "search" /\ "user" \notin ev.faults
         /\ \E i \in 1..Len(ev.store.listings) : ev.store.listings[i].status = "approved")
        => LET search_result == Search(ev.store, Env(ev.faults, ev.api_intent, ev.raw))
           IN  /\ search_result.success
                      => /\ "select" \notin ev.faults
                         /\ search_result.count = Len(search_result.listings)
               /\ "select" \in ev.faults
                      => /\ Sends("search_failed")
                         /\ ~Sends("no_results")

ApprovedIn(S) ==
    { i \in 1..Len(S.listings) : S.listings[i].status = "approved" }

\* C39: a search returns approved listings only, so never the pending
\* listing the chat flow creates, and no handler changes the status of a
\* listing
C39_OnlyApprovedReturned ==
    ev.kind = "text"
        => /\ \A i \in 1..Len(ev.store.listings) : listings[i] = ev.store.listings[i]
           /\ \A i \in (1..Len(listings)) \ (1..Len(ev.store.listings)) :
                  listings[i].status = "pending_review"
           /\ ev.intent = "search" /\ "user" \notin ev.faults
                  => LET found == Search(ev.store, Env(ev.faults, ev.api_intent, ev.raw)).listings
                     IN  /\ \A i \in 1..Len(found) : found[i].status = "approved"
                         /\ Sends("search_results") => ApprovedIn(ev.store) # {}
                         /\ \A i \in DOMAIN ev.trace :
                                ev.trace[i].tag = "search_results"
                                    => ev.trace[i].n = Cardinality(ApprovedIn(ev.store))

\* a search finds the approved listing of the other seller and not the
\* pending listing the user has just created, nor the seller's pending one
C39_Witness ==
    /\ ev.kind = "text"
    /\ ev.intent = "search"
    /\ Sends("search_results")
    /\ Len(ev.store.listings) = 3
    /\ ev.store.listings[3].user_id = 1
    /\ Cardinality(ApprovedIn(ev.store)) = 1

====
